---- MODULE Spec2Model ----
(***************************************************************************)
(* Model of the cadence-codegen analyzer (internal/analyzer/analyzer.go):  *)
(* per-file analysis, the directory walk, nested-type resolution against   *)
(* remote contract sources, and the flattened report; and of the npm       *)
(* installer (lib/install.js).                                             *)
(*                                                                         *)
(* Strings are sequences of symbols.  A symbol is a one-rune string, or a  *)
(* keyword ("access(all)", "struct", "let") whose letters occur in no      *)
(* other symbol of the model, so that a substring test for the keyword is  *)
(* a membership test.  A line of remote source is the sequence of its      *)
(* whitespace-separated tokens, each token a string.                       *)
(***************************************************************************)
EXTENDS Integers, Sequences, FiniteSets, TLC

----------------------------------------------------------------------------
(* Go's strings package, on sequences of symbols                           *)

Range(s) == {s[i] : i \in 1..Len(s)}

\* strings.Contains(s, c) for a one-symbol c
Contains(s, c) == c \in Range(s)

\* strings.Count(s, c) for a one-symbol c
Count(s, c) == Cardinality({i \in 1..Len(s) : s[i] = c})

\* strings.HasSuffix / HasPrefix for a one-symbol affix
HasSuffix(s, c) == Len(s) > 0 /\ s[Len(s)] = c
HasPrefix(s, c) == Len(s) > 0 /\ s[1] = c

\* strings.TrimSuffix / TrimPrefix: at most one occurrence is removed
TrimSuffix(s, c) == IF HasSuffix(s, c) THEN SubSeq(s, 1, Len(s) - 1) ELSE s
TrimPrefix(s, c) == IF HasPrefix(s, c) THEN Tail(s) ELSE s

\* strings.Split(s, sep): the pieces between separators, empty pieces kept
RECURSIVE Split(_, _)
Split(s, sep) ==
    IF ~Contains(s, sep) THEN <<s>>
    ELSE LET i == CHOOSE j \in 1..Len(s) :
                      s[j] = sep /\ \A k \in 1..(j - 1) : s[k] # sep
         IN  <<SubSeq(s, 1, i - 1)>> \o Split(SubSeq(s, i + 1, Len(s)), sep)

\* strings.Join(parts, ""): concatenation
RECURSIVE Concat(_)
Concat(parts) == IF parts = <<>> THEN <<>> ELSE Head(parts) \o Concat(Tail(parts))

\* strings.FieldsFunc(s, r == '_' || r == '-'): non-empty runs between them
IsTagSep(c) == c = "_" \/ c = "-"
RECURSIVE FieldsFunc(_)
FieldsFunc(s) ==
    IF s = <<>> THEN <<>>
    ELSE IF IsTagSep(s[1]) THEN FieldsFunc(Tail(s))
    ELSE LET stop == {j \in 1..Len(s) : IsTagSep(s[j])}
             n == IF stop = {} THEN Len(s)
                  ELSE (CHOOSE j \in stop : \A k \in stop : j <= k) - 1
         IN  <<SubSeq(s, 1, n)>> \o FieldsFunc(SubSeq(s, n + 1, Len(s)))

\* unicode.ToLower / ToUpper on the letters of the model
ToLowerSym(c) ==
    CASE c = "A" -> "a" [] c = "B" -> "b" [] c = "C" -> "c" [] OTHER -> c
ToUpperSym(c) ==
    CASE c = "a" -> "A" [] c = "b" -> "B" [] c = "c" -> "C" [] OTHER -> c

\* strings.ToLower
ToLower(s) == [i \in 1..Len(s) |-> ToLowerSym(s[i])]

\* strings.Title's isSeparator: letters, digits and underscore are not
IsSeparator(c) == c \in {"-", ".", " "}

\* strings.Title: upper-case every letter that follows a separator (or starts s)
Title(s) ==
    [i \in 1..Len(s) |->
        IF i = 1 \/ IsSeparator(s[i - 1]) THEN ToUpperSym(s[i]) ELSE s[i]]

\* Go map assignment m[k] = v
Put(m, k, v) == [x \in (DOMAIN m) \cup {k} |-> IF x = k THEN v ELSE m[x]]

\* make(map[...]...)
EmptyMap == [x \in {} |-> {}]

----------------------------------------------------------------------------
(* The declaration tree the Cadence parser hands to the analyzer            *)

\* ast.NominalType, ast.OptionalType, ast.VariableSizedType
Nominal(id) == [node |-> "nominal", id |-> id]
Optional(t) == [node |-> "optional", inner |-> t]
Array(t)    == [node |-> "array", inner |-> t]

\* ast.Type.String(): the type expression as written in the source
RECURSIVE TypeString(_)
TypeString(t) ==
    CASE t.node = "nominal"  -> t.id
      [] t.node = "optional" -> TypeString(t.inner) \o <<"?">>
      [] t.node = "array"    -> <<"[">> \o TypeString(t.inner) \o <<"]">>

\* ast.Parameter and ast.FieldDeclaration
Param(name, type) == [Identifier |-> name, TypeAnnotation |-> type]
FieldDecl(name, type, access) ==
    [member |-> "field", Identifier |-> name, TypeAnnotation |-> type, Access |-> access]

\* a missing return type annotation, and a missing parameter list
NoType == [node |-> "none"]
NoList == [nil |-> TRUE, Parameters |-> <<>>]
List(ps) == [nil |-> FALSE, Parameters |-> ps]

\* ast.TransactionDeclaration, ast.FunctionDeclaration, ast.CompositeDeclaration
TransactionDecl(plist) ==
    [decl |-> "transaction", Identifier |-> <<>>, Access |-> "", ParameterList |-> plist,
     ReturnTypeAnnotation |-> NoType, CompositeKind |-> "", Members |-> <<>>]
FunctionDecl(name, access, plist, ret) ==
    [decl |-> "function", Identifier |-> name, Access |-> access, ParameterList |-> plist,
     ReturnTypeAnnotation |-> ret, CompositeKind |-> "", Members |-> <<>>]
CompositeDecl(kind, name, access, members) ==
    [decl |-> "composite", Identifier |-> name, Access |-> access, ParameterList |-> NoList,
     ReturnTypeAnnotation |-> NoType, CompositeKind |-> kind, Members |-> members]

\* parser.ParseProgram: a declaration list, or a parse error
Parsed(decls) == [err |-> FALSE, Declarations |-> decls]
ParseError    == [err |-> TRUE, Declarations |-> <<>>]

----------------------------------------------------------------------------
(* Paths                                                                    *)

\* a path is the sequence of its segments; the scan root "." is <<>>
DotSeg == <<".">>
CdcExt == ".cdc"
JsonExt == ".json"

\* filepath.Base, filepath.Ext, filepath.Join(root, name)
Base(path) == path[Len(path)]
Ext(path) ==
    LET b == Base(path)
    IN  IF Len(b) > 0 /\ b[Len(b)] \in {CdcExt, JsonExt} THEN b[Len(b)] ELSE ""
Join(root, name) == root \o <<name>>

\* strings.Split(filepath.Dir(path), "/"): "." for a path of one segment
DirParts(path) == IF Len(path) <= 1 THEN <<DotSeg>> ELSE SubSeq(path, 1, Len(path) - 1)

----------------------------------------------------------------------------
(* Analyzer.AnalyzeFile                                                     *)

\* Go slices: nil and empty are different values
NilSlice == [nil |-> TRUE, elems |-> <<>>]
Slice(elems) == [nil |-> FALSE, elems |-> elems]

\* extractImports: the Import list and the lines that are not import lines
RECURSIVE extractImports(_)
extractImports(lines) ==
    IF lines = <<>> THEN [imports |-> <<>>, body |-> <<>>]
    ELSE LET parts == Head(lines)
             rest == extractImports(Tail(lines))
         IN  IF Len(parts) >= 2 /\ parts[1] = "import"
             THEN IF Len(parts) >= 4 /\ parts[3] = "from"
                  THEN [imports |-> <<[Contract |-> parts[2], Address |-> parts[4]]>>
                                        \o rest.imports,
                        body |-> rest.body]
                  ELSE rest
             ELSE [imports |-> rest.imports, body |-> <<parts>> \o rest.body]

\* the tag of a file, from its directory path
DeriveTag(dir) ==
    IF dir = <<DotSeg>> THEN <<>>
    ELSE LET validParts == SelectSeq(dir, LAMBDA part : part # <<>> /\ part # DotSeg)
             camel(i) ==
                 LET subParts == FieldsFunc(validParts[i])
                 IN  Concat([j \in 1..Len(subParts) |->
                                IF i = 1 /\ j = 1 THEN ToLower(subParts[j])
                                ELSE Title(ToLower(subParts[j]))])
             tag == Concat([i \in 1..Len(validParts) |-> camel(i)])
         IN  IF tag # <<>> THEN Title(tag) ELSE tag

\* the Field list of a structure declaration
StructFields(members) ==
    LET fs == SelectSeq(members, LAMBDA m : m.member = "field")
    IN  [i \in 1..Len(fs) |->
            [Name |-> fs[i].Identifier,
             TypeStr |-> TypeString(fs[i].TypeAnnotation),
             Optional |-> fs[i].TypeAnnotation.node = "optional",
             Access |-> fs[i].Access]]

\* the loop over the declarations that stores every structure declaration
RECURSIVE CaptureStructs(_, _, _)
CaptureStructs(structs, decls, fileName) ==
    IF decls = <<>> THEN structs
    ELSE LET d == Head(decls)
             next == IF d.decl = "composite" /\ d.CompositeKind = "structure"
                     THEN Put(structs, d.Identifier,
                              [Name |-> d.Identifier,
                               Fields |-> StructFields(d.Members),
                               Access |-> d.Access,
                               FileName |-> fileName])
                     ELSE structs
         IN  CaptureStructs(next, Tail(decls), fileName)

\* ExtractParams with "var params []Parameter" in place of make([]Parameter, 0)
ExtractParamsNilWhenEmpty(plist) ==
    IF plist.nil \/ plist.Parameters = <<>> THEN NilSlice
    ELSE Slice([i \in 1..Len(plist.Parameters) |->
                   [Name |-> plist.Parameters[i].Identifier,
                    TypeStr |-> TypeString(plist.Parameters[i].TypeAnnotation),
                    Optional |-> FALSE]])

\* the Parameter list of a transaction or function declaration
ExtractParams(plist) ==
    Slice(IF plist.nil THEN <<>>
          ELSE [i \in 1..Len(plist.Parameters) |->
                   [Name |-> plist.Parameters[i].Identifier,
                    TypeStr |-> TypeString(plist.Parameters[i].TypeAnnotation),
                    Optional |-> FALSE]])

\* the return type string of a function declaration ("" when none is declared)
ExtractReturnType(d) ==
    IF d.ReturnTypeAnnotation # NoType THEN TypeString(d.ReturnTypeAnnotation) ELSE <<>>

IsTransaction(d) == d.decl = "transaction"
IsMain(d) == d.decl = "function" /\ d.Identifier = <<"main">>
IsExported(d) == d.decl = "function" /\ d.Access # "AccessNotSpecified"

\* the least index of a set of indices, 0 when the set is empty
FirstIndex(hits) ==
    IF hits = {} THEN 0 ELSE CHOOSE i \in hits : \A j \in hits : i <= j

\* index of the first declaration each loop of AnalyzeFile stops at
FirstTransaction(decls) == FirstIndex({i \in 1..Len(decls) : IsTransaction(decls[i])})
FirstMain(decls) == FirstIndex({i \in 1..Len(decls) : IsMain(decls[i])})
FirstExported(decls) == FirstIndex({i \in 1..Len(decls) : IsExported(decls[i])})

\* Classify with the loop for main run before the loop for transactions
ClassifyMainFirst(decls) ==
    LET t == FirstTransaction(decls)
        m == FirstMain(decls)
        e == FirstExported(decls)
    IN  IF m # 0 THEN [kind |-> "script", at |-> m]
        ELSE IF t # 0 THEN [kind |-> "transaction", at |-> t]
        ELSE IF e # 0 THEN [kind |-> "script", at |-> e]
        ELSE [kind |-> "none", at |-> 0]

\* which entry point the file has: the three loops of AnalyzeFile, in order
Classify(decls) ==
    LET t == FirstTransaction(decls)
        m == FirstMain(decls)
        e == FirstExported(decls)
    IN  IF t # 0 THEN [kind |-> "transaction", at |-> t]
        ELSE IF m # 0 THEN [kind |-> "script", at |-> m]
        ELSE IF e # 0 THEN [kind |-> "script", at |-> e]
        ELSE [kind |-> "none", at |-> 0]

NoResult == [FileName |-> <<>>, Type |-> "", Parameters |-> NilSlice,
             ReturnType |-> <<>>, Imports |-> NilSlice, Tag |-> <<>>]

\* AnalyzeFile on analyzer state a = [Transactions, Scripts, Structs]; file is
\* what the path holds: [exists, lines, program]
AnalyzeFileOp(a, path, file) ==
    IF ~file.exists THEN [a |-> a, result |-> NoResult, err |-> "read"]
    ELSE
    LET split == extractImports(file.lines)
        fileName == Base(path)
        tag == DeriveTag(DirParts(path))
        program == file.program
        base == [FileName |-> fileName, Type |-> "",
                 Parameters |-> NilSlice, ReturnType |-> <<>>,
                 Imports |-> IF split.imports = <<>> THEN NilSlice
                             ELSE Slice(split.imports),
                 Tag |-> tag]
        structs == CaptureStructs(a.Structs, program.Declarations, fileName)
        c == Classify(program.Declarations)
        d == program.Declarations[c.at]
    IN  IF program.err THEN [a |-> a, result |-> NoResult, err |-> "parse"]
        ELSE IF c.kind = "transaction"
        THEN LET result == [base EXCEPT !.Type = "transaction",
                                        !.Parameters = ExtractParams(d.ParameterList)]
             IN  [a |-> [a EXCEPT !.Transactions = Put(a.Transactions, fileName, result),
                                  !.Structs = structs],
                  result |-> result, err |-> ""]
        ELSE IF c.kind = "script"
        THEN LET result == [base EXCEPT !.Type = "script",
                                        !.Parameters = ExtractParams(d.ParameterList),
                                        !.ReturnType = ExtractReturnType(d)]
             IN  [a |-> [a EXCEPT !.Scripts = Put(a.Scripts, fileName, result),
                                  !.Structs = structs],
                  result |-> result, err |-> ""]
        ELSE [a |-> [a EXCEPT !.Structs = structs], result |-> NoResult, err |-> "noentry"]

----------------------------------------------------------------------------
(* Analyzer.GetReport                                                       *)

\* flattenStructName: the name with its dots deleted
flattenStructName(name) ==
    IF Contains(name, ".") THEN Concat(Split(name, ".")) ELSE name

\* the address book GetReport loads: the file at AddressesPath when that is set,
\* else the first addresses.json on the upward path from the working directory
NoPath == <<>>
NoAddresses == [nil |-> TRUE, networks |-> EmptyMap]

\* LoadAddresses with a built-in book in place of nil when no file is found
LoadAddressesOrDefault(addressesPath, files) ==
    IF addressesPath # NoPath THEN files.tree
    ELSE IF ~files.up.nil THEN files.up
    ELSE [nil |-> FALSE,
          networks |-> ("mainnet" :> (<<"A">> :> <<"1">> @@ <<"B">> :> <<"2">>))]

LoadAddresses(addressesPath, files) ==
    IF addressesPath # NoPath THEN files.tree ELSE files.up

\* FlattenedStruct without the assignment to Name
UnflattenedStruct(structDef) == structDef

\* the flattened copy of one stored entry
FlattenedStruct(structDef) == [structDef EXCEPT !.Name = flattenStructName(structDef.Name)]

\* the flattened copies a read of the structure map can produce: one entry per
\* flattened key, taken from any stored entry that flattens to that key (the
\* last one written in map iteration order)
RECURSIVE FlattenedOver(_, _)
FlattenedOver(structs, keys) ==
    IF keys = {} THEN {EmptyMap}
    ELSE LET fk == CHOOSE k \in keys : TRUE
             from == {k \in DOMAIN structs : flattenStructName(k) = fk}
         IN  {Put(m, fk, FlattenedStruct(structs[k])) :
                 m \in FlattenedOver(structs, keys \ {fk}), k \in from}

FlattenedStructs(structs) ==
    FlattenedOver(structs, {flattenStructName(k) : k \in DOMAIN structs})

\* the reports GetReport can return in analyzer state a
GetReportOp(a, files) ==
    {[Transactions |-> a.Transactions,
      Scripts |-> a.Scripts,
      Structs |-> fl,
      Addresses |-> LoadAddresses(a.AddressesPath, files)] :
        fl \in FlattenedStructs(a.Structs)}

----------------------------------------------------------------------------
(* Analyzer.analyzeContractCodeSelective                                    *)

\* strings.HasPrefix(line, "access(all) struct") on a trimmed line
IsStructStart(parts) ==
    /\ Len(parts) >= 2
    /\ parts[1] = <<"access(all)">>
    /\ HasPrefix(parts[2], "struct")

\* occurrences of a symbol in a whole line
LineCount(parts, c) == Count(Concat(parts), c)

\* the first token "let" that has two tokens after it, 0 when there is none
LetIndex(parts) ==
    LET hits == {i \in 1..Len(parts) : parts[i] = <<"let">> /\ i + 2 <= Len(parts)}
    IN  IF hits = {} THEN 0 ELSE CHOOSE i \in hits : \A j \in hits : i <= j

\* FullStructName without the contract prefix
BareStructName(contractName, structName) == structName

\* fmt.Sprintf("%s.%s", contractName, structName)
FullStructName(contractName, structName) == contractName \o <<".">> \o structName

\* OpensStruct without the test of the wanted set (as analyzeContractCode has it)
OpensAnyStruct(structs, parts, contractName, structNames) ==
    /\ IsStructStart(parts)
    /\ Len(parts) >= 3
    /\ FullStructName(contractName, parts[3]) \notin DOMAIN structs

\* OpensStruct without the test for an entry that exists already
OpensKnownStruct(structs, parts, contractName, structNames) ==
    /\ IsStructStart(parts)
    /\ Len(parts) >= 3
    /\ parts[3] \in structNames

\* the guard under which a line starts a new structure
OpensStruct(structs, parts, contractName, structNames) ==
    /\ IsStructStart(parts)
    /\ Len(parts) >= 3
    /\ parts[3] \in structNames
    /\ FullStructName(contractName, parts[3]) \notin DOMAIN structs

\* ScanField with an optional flag that is never set
ScanFieldNeverOptional(parts, i) ==
    [Name |-> TrimSuffix(parts[i + 1], ":"),
     TypeStr |-> TrimSuffix(parts[i + 2], ";"),
     Optional |-> FALSE,
     Access |-> ""]

\* the field a line declares, i the position of its token let
ScanField(parts, i) ==
    LET fieldType == TrimSuffix(parts[i + 2], ";")
    IN  [Name |-> TrimSuffix(parts[i + 1], ":"),
         TypeStr |-> fieldType,
         Optional |-> Contains(fieldType, "?"),
         Access |-> ""]

\* one iteration of the scanner's loop; st = [Structs, current, inStruct, braceCount]
ScanLine(st, parts, contractName, structNames) ==
    LET fullStructName == FullStructName(contractName, parts[3])
        s1 == IF OpensStruct(st.Structs, parts, contractName, structNames)
              THEN [Structs |-> Put(st.Structs, fullStructName,
                                    [Name |-> fullStructName, Fields |-> <<>>,
                                     Access |-> "", FileName |-> <<>>]),
                    current |-> fullStructName, inStruct |-> TRUE, braceCount |-> 0]
              ELSE st
        count == s1.braceCount + LineCount(parts, "{") - LineCount(parts, "}")
        i == LetIndex(parts)
        field == ScanField(parts, i)
        hasField == /\ Contains(Concat(parts), "let")
                    /\ Contains(Concat(parts), ":")
                    /\ i # 0
                    /\ s1.current \in DOMAIN s1.Structs
        structs2 == IF hasField
                    THEN [s1.Structs EXCEPT ![s1.current].Fields = Append(@, field)]
                    ELSE s1.Structs
    IN  IF s1.inStruct /\ s1.current # <<>>
        THEN IF count <= 0
             THEN [Structs |-> structs2, current |-> <<>>, inStruct |-> FALSE,
                   braceCount |-> count]
             ELSE [Structs |-> structs2, current |-> s1.current, inStruct |-> TRUE,
                   braceCount |-> count]
        ELSE s1

RECURSIVE ScanLines(_, _, _, _)
ScanLines(st, lines, contractName, structNames) ==
    IF lines = <<>> THEN st
    ELSE ScanLines(ScanLine(st, Head(lines), contractName, structNames),
                   Tail(lines), contractName, structNames)

\* the structure map after scanning code for the structures named in structNames
analyzeContractCodeSelective(structs, code, contractName, structNames) ==
    ScanLines([Structs |-> structs, current |-> <<>>, inStruct |-> FALSE, braceCount |-> 0],
              code, contractName, structNames).Structs

----------------------------------------------------------------------------
(* Analyzer.FetchContractFromChainSelective                                 *)

\* http.Get on the account of an address: the reply the chain gives, a generic
\* not-found reply for an account the chain does not hold
NotFoundReply == [err |-> FALSE, status |-> 404, json |-> TRUE, hasContracts |-> FALSE,
                  contracts |-> EmptyMap]
HttpGet(chain, network, address) ==
    IF <<network, address>> \in DOMAIN chain THEN chain[<<network, address>>]
    ELSE NotFoundReply

\* UsedName with the bare name tried before the name with the prefix 0x
UsedNameBareFirst(networkAddresses, contractName) ==
    IF contractName \in DOMAIN networkAddresses
    THEN contractName ELSE <<"0x">> \o contractName

\* the key of the address book the fetch uses: "0x" + name when the book holds
\* it, the name itself otherwise
UsedName(networkAddresses, contractName) ==
    IF (<<"0x">> \o contractName) \in DOMAIN networkAddresses
    THEN <<"0x">> \o contractName ELSE contractName

\* the structure map after the fetch, the error the fetch returns ("" for nil),
\* whether a request was sent, the HTTP status of the reply (0 without one) and
\* the account address of the request (empty without one)
FetchContractFromChainSelective(a, contractName, network, structNames, files, chain) ==
    LET addresses == LoadAddresses(a.AddressesPath, files)
        fail(e) == [Structs |-> a.Structs, err |-> e, requested |-> FALSE, status |-> 0,
                    address |-> <<>>]
    IN
    IF addresses.nil THEN fail("no addresses available")
    ELSE IF network \notin DOMAIN addresses.networks THEN fail("network not found")
    ELSE
    LET networkAddresses == addresses.networks[network]
        prefixedName == <<"0x">> \o contractName
        found == prefixedName \in DOMAIN networkAddresses
                    \/ contractName \in DOMAIN networkAddresses
        usedName == UsedName(networkAddresses, contractName)
        contractAddress == TrimPrefix(networkAddresses[usedName], "0x")
        resp == HttpGet(chain, network, contractAddress)
        failed(e) == [Structs |-> a.Structs, err |-> e, requested |-> TRUE,
                      status |-> resp.status, address |-> contractAddress]
        originalContractName == TrimPrefix(usedName, "0x")
    IN
    IF ~found THEN fail("contract not found in network")
    ELSE IF network \notin {"mainnet", "testnet"} THEN fail("unsupported network")
    ELSE IF resp.err THEN failed("failed to fetch contract")
    ELSE IF ~resp.json THEN failed("failed to parse response")
    ELSE IF ~resp.hasContracts THEN failed("no contracts found in response")
    ELSE IF originalContractName \notin DOMAIN resp.contracts
         THEN failed("contract not found in response")
    ELSE IF ~resp.contracts[originalContractName].base64
         THEN failed("failed to decode contract code")
    ELSE [Structs |-> analyzeContractCodeSelective(
                          a.Structs, resp.contracts[originalContractName].code,
                          originalContractName, structNames),
          err |-> "", requested |-> TRUE, status |-> resp.status,
          address |-> contractAddress]

----------------------------------------------------------------------------
(* Analyzer.ResolveNestedTypes                                              *)

\* extractNestedTypes: the (contract, structure) pair a type string names, if any
NestedRef(typeStr) ==
    LET cleanType == TrimPrefix(TrimSuffix(TrimSuffix(typeStr, "?"), "]"), "[")
        parts == Split(cleanType, ".")
    IN  IF Contains(typeStr, ".") /\ Contains(cleanType, ".") /\ Len(parts) = 2
        THEN {<<parts[1], parts[2]>>}
        ELSE {}

\* every type string the collector looks at
CollectedTypes(a) ==
    {a.Scripts[k].ReturnType : k \in DOMAIN a.Scripts}
        \cup {a.Transactions[k].ReturnType : k \in DOMAIN a.Transactions}
        \cup UNION {{a.Structs[k].Fields[i].TypeStr : i \in 1..Len(a.Structs[k].Fields)} :
                        k \in DOMAIN a.Structs}

\* nestedTypes: contract name -> set of structure names
NestedTypes(a) ==
    LET refs == UNION {NestedRef(t) : t \in CollectedTypes(a)}
    IN  [c \in {r[1] : r \in refs} |-> {r[2] : r \in {x \in refs : x[1] = c}}]

\* the orders a range over the map nestedTypes can take
Orders(S) ==
    {o \in [1..Cardinality(S) -> S] : \A i, j \in 1..Cardinality(S) : o[i] = o[j] => i = j}

\* ResolveLoop with a loop that fetches the first contract of the order only
ResolveLoopFirstOnly(a, nestedTypes, order, network, files, chain, calls) ==
    IF order = <<>> THEN [Structs |-> a.Structs, calls |-> calls]
    ELSE LET c == Head(order)
             r == FetchContractFromChainSelective(a, c, network, nestedTypes[c],
                                                  files, chain)
         IN  [Structs |-> r.Structs,
              calls |-> Append(calls, [contract |-> c, wanted |-> nestedTypes[c],
                                       err |-> r.err, requested |-> r.requested,
                                       status |-> r.status, address |-> r.address,
                                       before |-> a.Structs, after |-> r.Structs])]

\* ResolveLoop with a loop that returns at the first fetch that fails
RECURSIVE ResolveLoopStopAtError(_, _, _, _, _, _, _)
ResolveLoopStopAtError(a, nestedTypes, order, network, files, chain, calls) ==
    IF order = <<>> THEN [Structs |-> a.Structs, calls |-> calls]
    ELSE LET c == Head(order)
             r == FetchContractFromChainSelective(a, c, network, nestedTypes[c],
                                                  files, chain)
             log == Append(calls, [contract |-> c, wanted |-> nestedTypes[c],
                                   err |-> r.err, requested |-> r.requested,
                                   status |-> r.status, address |-> r.address,
                                   before |-> a.Structs, after |-> r.Structs])
         IN  IF r.err # "" THEN [Structs |-> a.Structs, calls |-> log]
             ELSE ResolveLoopStopAtError([a EXCEPT !.Structs = r.Structs], nestedTypes,
                                         Tail(order), network, files, chain, log)

\* the fetch loop, in the given order; calls logs each fetch
RECURSIVE ResolveLoop(_, _, _, _, _, _, _)
ResolveLoop(a, nestedTypes, order, network, files, chain, calls) ==
    IF order = <<>> THEN [Structs |-> a.Structs, calls |-> calls]
    ELSE LET c == Head(order)
             r == FetchContractFromChainSelective(a, c, network, nestedTypes[c],
                                                  files, chain)
         IN  ResolveLoop([a EXCEPT !.Structs = r.Structs], nestedTypes, Tail(order),
                         network, files, chain,
                         Append(calls, [contract |-> c, wanted |-> nestedTypes[c],
                                        err |-> r.err, requested |-> r.requested,
                                        status |-> r.status, address |-> r.address,
                                        before |-> a.Structs, after |-> r.Structs]))

ResolveNestedTypesOp(a, network, order, files, chain) ==
    ResolveLoop(a, NestedTypes(a), order, network, files, chain, <<>>)

----------------------------------------------------------------------------
(* Analyzer.AnalyzeDirectory                                                *)

\* nodes of the file tree; a directory lists its entries in lexical order
DirNode(name, entries) == [name |-> name, isDir |-> TRUE, entries |-> entries,
                           lines |-> <<>>, program |-> ParseError, missing |-> FALSE,
                           unreadable |-> FALSE]
FileNode(name, lines, program) == [name |-> name, isDir |-> FALSE, entries |-> <<>>,
                                   lines |-> lines, program |-> program,
                                   missing |-> FALSE, unreadable |-> FALSE]
NoNode == [name |-> <<>>, isDir |-> FALSE, entries |-> <<>>, lines |-> <<>>,
           program |-> ParseError, missing |-> TRUE, unreadable |-> FALSE]

\* a directory or file that exists and cannot be read (no permission)
Unreadable(node) == [node EXCEPT !.unreadable = TRUE]

\* filepath.Walk: the calls of the walk function for every node below (and
\* including) node, depth first, in lexical order; err is the error the walk
\* function is handed: Lstat failed on the root, or a directory cannot be listed
RECURSIVE WalkNode(_, _)
WalkEntries(entries, path) ==
    Concat([i \in 1..Len(entries) |-> WalkNode(entries[i], Join(path, entries[i].name))])
WalkNode(node, path) ==
    IF node.missing \/ (node.isDir /\ node.unreadable)
    THEN <<[path |-> path, node |-> node, err |-> TRUE]>>
    ELSE <<[path |-> path, node |-> node, err |-> FALSE]>> \o
             (IF node.isDir THEN WalkEntries(node.entries, path) ELSE <<>>)

\* the node a path names, from the working directory
RECURSIVE Lookup(_, _)
Lookup(node, path) ==
    IF path = <<>> THEN node
    ELSE LET hits == {i \in 1..Len(node.entries) : node.entries[i].name = Head(path)}
         IN  IF ~node.isDir \/ node.unreadable \/ hits = {}
             THEN NoNode
             ELSE Lookup(node.entries[CHOOSE i \in hits : TRUE], Tail(path))

\* os.ReadFile followed by the parser, as AnalyzeFile sees a node
FileOf(n) == [exists |-> ~n.missing /\ ~n.isDir /\ ~n.unreadable,
              lines |-> n.lines, program |-> n.program]
FileAt(tree, path) == FileOf(Lookup(tree, path))

AddressesName == <<"addresses", JsonExt>>

\* findAddressesJSONRecursive: the first addresses.json of the walk, if the walk
\* reaches one before an error ends it
findAddressesJSONRecursive(tree, root) ==
    LET visit == WalkNode(Lookup(tree, root), root)
        hits == {i \in 1..Len(visit) :
                    /\ ~visit[i].err
                    /\ ~visit[i].node.isDir /\ Base(visit[i].path) = AddressesName
                    /\ \A j \in 1..(i - 1) : ~visit[j].err}
    IN  IF hits = {} THEN NoPath
        ELSE visit[CHOOSE i \in hits : \A j \in hits : i <= j].path

\* WalkFiles with a walk that ends at the first file that fails
RECURSIVE WalkFilesStopAtError(_, _, _)
WalkFilesStopAtError(a, visit, warnings) ==
    IF visit = <<>> THEN [a |-> a, warnings |-> warnings, err |-> ""]
    ELSE LET v == Head(visit)
         IN  IF v.err THEN [a |-> a, warnings |-> warnings, err |-> "walk"]
             ELSE IF ~v.node.isDir /\ Ext(v.path) = CdcExt
             THEN LET r == AnalyzeFileOp(a, v.path, FileOf(v.node))
                  IN  IF r.err # ""
                      THEN [a |-> r.a, warnings |-> warnings + 1, err |-> ""]
                      ELSE WalkFilesStopAtError(r.a, Tail(visit), warnings)
             ELSE WalkFilesStopAtError(a, Tail(visit), warnings)

\* the walk callback applied to the visited nodes in order; an error handed to
\* the callback is returned and ends the walk
RECURSIVE WalkFiles(_, _, _)
WalkFiles(a, visit, warnings) ==
    IF visit = <<>> THEN [a |-> a, warnings |-> warnings, err |-> ""]
    ELSE LET v == Head(visit)
         IN  IF v.err THEN [a |-> a, warnings |-> warnings, err |-> "walk"]
             ELSE IF ~v.node.isDir /\ Ext(v.path) = CdcExt
             THEN LET r == AnalyzeFileOp(a, v.path, FileOf(v.node))
                  IN  WalkFiles(r.a, Tail(visit),
                                IF r.err # "" THEN warnings + 1 ELSE warnings)
             ELSE WalkFiles(a, Tail(visit), warnings)

\* AnalyzeDirectory: the analyzer after the walk, the warnings written, the error
AnalyzeDirectoryOp(a, root, tree) ==
    LET found == findAddressesJSONRecursive(tree, root)
        a1 == IF found # NoPath THEN [a EXCEPT !.AddressesPath = found] ELSE a
    IN  WalkFiles(a1, WalkNode(Lookup(tree, root), root), 0)

----------------------------------------------------------------------------
(* The files, address books and remote contracts of the model              *)

TInt == Nominal(<<"I">>)
TAddr == Nominal(<<"D">>)
TAS == Nominal(<<"A", ".", "S">>)
TAU == Nominal(<<"A", ".", "U">>)
TBT == Nominal(<<"B", ".", "T">>)

Main == <<"main">>

\* q.cdc: a script without parameters
RootScript ==
    FileNode(<<"q", CdcExt>>,
             << <<"import", "A", "from", "0xA">>, <<"body">> >>,
             Parsed(<<FunctionDecl(Main, "AccessAll", List(<<>>), TAS)>>))

\* a/q.cdc: a function main followed by a transaction
MainThenTransaction ==
    FileNode(<<"q", CdcExt>>,
             << <<"body">> >>,
             Parsed(<<FunctionDecl(Main, "AccessAll", List(<<Param(<<"p">>, TInt)>>), TInt),
                      TransactionDecl(List(<<Param(<<"m">>, TInt),
                                             Param(<<"t">>, Optional(TAddr))>>))>>))

\* a/t.cdc: a transaction followed by a function
TransactionFirst ==
    FileNode(<<"t", CdcExt>>,
             << <<"body">> >>,
             Parsed(<<TransactionDecl(List(<<Param(<<"p">>, TInt)>>)),
                      FunctionDecl(<<"h">>, "AccessAll", List(<<>>), NoType)>>))

\* a/A_b/t.cdc: a structure, a transaction without parameter list, a function
\* main, and a structure AU, whose name is that of A.U without the dot
TransactionMiddle ==
    FileNode(<<"t", CdcExt>>,
             << <<"import", "B", "from", "0xB">>, <<"import", "B">>, <<"body">> >>,
             Parsed(<<CompositeDecl("structure", <<"L">>, "AccessAll",
                                    <<FieldDecl(<<"f">>, Optional(TAU), "AccessAll"),
                                      FieldDecl(<<"e">>, Array(Optional(TAS)),
                                                "AccessAll")>>),
                      TransactionDecl(NoList),
                      FunctionDecl(Main, "AccessAll", List(<<>>), TInt),
                      CompositeDecl("structure", <<"A", "U">>, "AccessAll",
                                    <<FieldDecl(<<"z">>, TInt, "AccessAll")>>)>>))

\* a/A_b/q.cdc: an exported helper before a function main with two parameters
ScriptTwoParams ==
    FileNode(<<"q", CdcExt>>,
             << <<"body">> >>,
             Parsed(<<FunctionDecl(<<"h">>, "AccessAll", List(<<>>), TInt),
                      FunctionDecl(Main, "AccessNotSpecified",
                                   List(<<Param(<<"x">>, TInt),
                                          Param(<<"y">>, Optional(Array(TInt)))>>),
                                   Optional(Array(TAS)))>>))

\* a/A_b/e.cdc: no main; the first exported function is the entry point
ExportedOnly ==
    FileNode(<<"e", CdcExt>>,
             << <<"body">> >>,
             Parsed(<<FunctionDecl(<<"f">>, "AccessNotSpecified", List(<<>>), TBT),
                      FunctionDecl(<<"g">>, "AccessAll", List(<<Param(<<"x">>, TInt)>>),
                                   NoType)>>))

\* a/A_b/bad.cdc: a file the parser rejects
SyntaxError == FileNode(<<"bad", CdcExt>>, << <<"body">> >>, ParseError)

\* b/n.cdc: a structure and a private function, no entry point
NoEntryPoint ==
    FileNode(<<"n", CdcExt>>,
             << <<"body">> >>,
             Parsed(<<CompositeDecl("structure", <<"N">>, "AccessAll",
                                    <<FieldDecl(<<"g">>, TBT, "AccessAll")>>),
                      FunctionDecl(<<"h">>, "AccessNotSpecified", List(<<>>), NoType)>>))

DirA == <<"a">>
DirAb == <<"A", "_", "b">>
DirB == <<"b">>

\* b/f.cdc and b/k: a source file and a directory that cannot be read
LockedFile == Unreadable(FileNode(<<"f", CdcExt>>, <<>>, ParseError))
LockedDir == Unreadable(DirNode(<<"k">>, <<>>))

\* the tree below the working directory, in the world w = [inTree, locked, ...];
\* inTree: a/addresses.json exists; locked: b holds the two unreadable entries
Tree(w) ==
    DirNode(<<>>,
        <<DirNode(DirA,
              <<DirNode(DirAb, <<SyntaxError, ExportedOnly, ScriptTwoParams,
                                 TransactionMiddle>>)>>
              \o (IF w.inTree THEN <<FileNode(AddressesName, <<>>, ParseError)>> ELSE <<>>)
              \o <<MainThenTransaction, TransactionFirst>>),
          DirNode(DirB, (IF w.locked THEN <<LockedFile, LockedDir>> ELSE <<>>)
                            \o <<NoEntryPoint>>),
          RootScript>>)

\* addresses.json inside the walked tree, and the one above the working directory;
\* the book of the tree lists contract A under both spellings of its name
TreeBook ==
    [nil |-> FALSE,
     networks |-> ("mainnet" :> (<<"0x", "A">> :> <<"0x", "1">> @@ <<"A">> :> <<"0x", "3">>
                                     @@ <<"B">> :> <<"2">>))]
UpBook ==
    [nil |-> FALSE,
     networks |-> ("mainnet" :> (<<"A">> :> <<"0x", "1">>))]
BothBooks == [inTree |-> TRUE, locked |-> FALSE, tree |-> TreeBook, up |-> UpBook]
NoBook == [inTree |-> FALSE, locked |-> FALSE, tree |-> NoAddresses, up |-> NoAddresses]
UpOnly == [inTree |-> FALSE, locked |-> FALSE, tree |-> NoAddresses, up |-> UpBook]
Locked == [BothBooks EXCEPT !.locked = TRUE]

\* lines of remote contract source
AccessAllTok == <<"access(all)">>
StructLine(name) == <<AccessAllTok, <<"struct">>, name, <<"{">>>>
FieldLine(name, type) == <<AccessAllTok, <<"let">>, name \o <<":">>, type>>
ContractLine(name) == <<AccessAllTok, <<"contract">>, name, <<"{">>>>
CloseLine == << <<"}">> >>

\* contract A: structure S between W and V, structure U declared inside S
SrcA ==
    <<ContractLine(<<"A">>),
      StructLine(<<"W">>), FieldLine(<<"k">>, <<"I">>), CloseLine,
      StructLine(<<"S">>), FieldLine(<<"t">>, <<"B", ".", "T">>),
          StructLine(<<"U">>), FieldLine(<<"m">>, <<"I">>), CloseLine,
          FieldLine(<<"o">>, <<"I", "?">>), CloseLine,
      StructLine(<<"V">>), FieldLine(<<"n">>, <<"I">>), CloseLine,
      CloseLine>>

\* contract B: structure T, with a field that names A.U
SrcB ==
    <<ContractLine(<<"B">>),
      StructLine(<<"T">>), FieldLine(<<"v">>, <<"A", ".", "U", "?">>), CloseLine,
      CloseLine>>

OkReply(name, code) ==
    [err |-> FALSE, status |-> 200, json |-> TRUE, hasContracts |-> TRUE,
     contracts |-> (name :> [base64 |-> TRUE, code |-> code])]
ErrReply == [err |-> TRUE, status |-> 0, json |-> FALSE, hasContracts |-> FALSE,
             contracts |-> EmptyMap]

\* replies that fail a fetch: a body that is not JSON, a JSON body without the
\* key "contracts", an account without the contract, source that is not base64
BadJsonReply == [err |-> FALSE, status |-> 200, json |-> FALSE, hasContracts |-> FALSE,
                 contracts |-> EmptyMap]
NoContractsReply == [err |-> FALSE, status |-> 200, json |-> TRUE, hasContracts |-> FALSE,
                     contracts |-> EmptyMap]
OtherContractReply == OkReply(<<"C">>, <<>>)
BadBase64Reply(name) ==
    [err |-> FALSE, status |-> 200, json |-> TRUE, hasContracts |-> TRUE,
     contracts |-> (name :> [base64 |-> FALSE, code |-> <<>>])]

\* a reply with a status other than 200 whose body carries the contract
ServerErrorReply(name, code) == [OkReply(name, code) EXCEPT !.status = 500]

\* what the access nodes answer, by network and account address
ChainB(reply) ==
    <<"mainnet", <<"1">>>> :> OkReply(<<"A">>, SrcA)
        @@ <<"mainnet", <<"2">>>> :> reply
ChainUp == ChainB(OkReply(<<"B">>, SrcB))
ChainBDown == ChainB(ErrReply)

\* the replies for the account of B under which the fetch of B fails
FailingReplies ==
    {ErrReply, BadJsonReply, NoContractsReply, OtherContractReply,
     BadBase64Reply(<<"B">>)}

Networks == {"mainnet", "testnet"}
Roots == {<<>>, <<DirA>>, <<DirA, DirAb>>}
MissingPath == <<DirA, <<"z", CdcExt>>>>

\* the paths AnalyzeFile is called with directly; the walk reaches every file
DirectPaths ==
    {<<<<"q", CdcExt>>>>, <<DirA, <<"q", CdcExt>>>>, <<DirA, <<"t", CdcExt>>>>,
     <<DirA, DirAb, <<"q", CdcExt>>>>, <<DirA, DirAb, <<"t", CdcExt>>>>, MissingPath}

\* consecutive resolution passes the model follows
MaxPasses == 2

----------------------------------------------------------------------------
(* State                                                                    *)

VARIABLES
    Transactions,   \* Analyzer.Transactions
    Scripts,        \* Analyzer.Scripts
    Structs,        \* Analyzer.Structs
    AddressesPath,  \* Analyzer.AddressesPath
    files,          \* the address books on disk
    chain,          \* the replies of the access nodes
    ret,            \* the most recent call and what it returned
    pass            \* resolution passes since the last analysis

vars == <<Transactions, Scripts, Structs, AddressesPath, files, chain, ret, pass>>

Analyzer == [Transactions |-> Transactions, Scripts |-> Scripts, Structs |-> Structs,
             AddressesPath |-> AddressesPath]

\* every .cdc path below the working directory
CdcPaths ==
    LET visit == WalkNode(Tree(files), <<>>)
    IN  {visit[i].path : i \in {j \in 1..Len(visit) :
                                   ~visit[j].node.isDir /\ Ext(visit[j].path) = CdcExt}}

\* analyzer.New()
Init ==
    /\ Transactions = EmptyMap
    /\ Scripts = EmptyMap
    /\ Structs = EmptyMap
    /\ AddressesPath = NoPath
    /\ files = BothBooks
    /\ chain = ChainUp
    /\ ret = [op |-> "New"]
    /\ pass = 0

AnalyzeFile(path) ==
    LET r == AnalyzeFileOp(Analyzer, path, FileAt(Tree(files), path))
    IN  /\ Transactions' = r.a.Transactions
        /\ Scripts' = r.a.Scripts
        /\ Structs' = r.a.Structs
        /\ ret' = [op |-> "AnalyzeFile", path |-> path, result |-> r.result,
                   err |-> r.err]
        /\ pass' = 0
        /\ UNCHANGED <<AddressesPath, files, chain>>

AnalyzeDirectory(root) ==
    LET r == AnalyzeDirectoryOp(Analyzer, root, Tree(files))
    IN  /\ Transactions' = r.a.Transactions
        /\ Scripts' = r.a.Scripts
        /\ Structs' = r.a.Structs
        /\ AddressesPath' = r.a.AddressesPath
        /\ ret' = [op |-> "AnalyzeDirectory", root |-> root, warnings |-> r.warnings,
                   err |-> r.err]
        /\ pass' = 0
        /\ UNCHANGED <<files, chain>>

ResolveNestedTypes(network) ==
    /\ pass < MaxPasses
    /\ \E order \in Orders(DOMAIN NestedTypes(Analyzer)) :
          LET r == ResolveNestedTypesOp(Analyzer, network, order, files, chain)
          IN  /\ Structs' = r.Structs
              /\ ret' = [op |-> "ResolveNestedTypes", network |-> network,
                         calls |-> r.calls, err |-> ""]
    /\ pass' = pass + 1
    /\ UNCHANGED <<Transactions, Scripts, AddressesPath, files, chain>>

GetReport ==
    /\ \E report \in GetReportOp(Analyzer, files) :
          ret' = [op |-> "GetReport", report |-> report]
    /\ UNCHANGED <<Transactions, Scripts, Structs, AddressesPath, files, chain, pass>>

Next ==
    \/ \E path \in DirectPaths : AnalyzeFile(path)
    \/ \E root \in Roots : AnalyzeDirectory(root)
    \/ \E network \in Networks : ResolveNestedTypes(network)
    \/ GetReport

Spec == Init /\ [][Next]_vars

----------------------------------------------------------------------------
(* The analyze command, and the analyzer where files, directories, address *)
(* books or access nodes fail                                              *)

\* what RunE has to write when it returns before the report
NoReport == [Transactions |-> EmptyMap, Scripts |-> EmptyMap, Structs |-> EmptyMap,
             Addresses |-> NoAddresses]

\* analyzeCmd.RunE: a new analyzer walks inputPath, resolves nested types when
\* asked to, and the report is written.  The outcomes the run can have: the
\* analyzer it leaves, the fetches, the report written, the error returned;
\* scanned is the structure map the walk left.
analyzeCmdOp(inputPath, resolveNested, network, fs, ch) ==
    LET a0 == [Transactions |-> EmptyMap, Scripts |-> EmptyMap, Structs |-> EmptyMap,
               AddressesPath |-> NoPath]
        d == AnalyzeDirectoryOp(a0, inputPath, Tree(fs))
        resolved == IF resolveNested
                    THEN {ResolveNestedTypesOp(d.a, network, order, fs, ch) :
                             order \in Orders(DOMAIN NestedTypes(d.a))}
                    ELSE {[Structs |-> d.a.Structs, calls |-> <<>>]}
    IN  IF d.err # ""
        THEN {[a |-> d.a, warnings |-> d.warnings, scanned |-> d.a.Structs,
               calls |-> <<>>, written |-> FALSE, report |-> NoReport,
               err |-> "failed to analyze directory"]}
        ELSE UNION {{[a |-> [d.a EXCEPT !.Structs = r.Structs],
                      warnings |-> d.warnings, scanned |-> d.a.Structs,
                      calls |-> r.calls, written |-> TRUE, report |-> report,
                      err |-> ""] :
                        report \in GetReportOp([d.a EXCEPT !.Structs = r.Structs], fs)} :
                    r \in resolved}

analyzeCmd(inputPath, resolveNested, network) ==
    /\ \E o \in analyzeCmdOp(inputPath, resolveNested, network, files, chain) :
          /\ Transactions' = o.a.Transactions
          /\ Scripts' = o.a.Scripts
          /\ Structs' = o.a.Structs
          /\ AddressesPath' = o.a.AddressesPath
          /\ ret' = [op |-> "analyze", input |-> inputPath,
                     resolveNested |-> resolveNested, network |-> network,
                     warnings |-> o.warnings, scanned |-> o.scanned,
                     calls |-> o.calls, written |-> o.written, report |-> o.report,
                     err |-> o.err]
    /\ pass' = IF resolveNested THEN 1 ELSE 0
    /\ UNCHANGED <<files, chain>>

\* the worlds: one failing reply for the account of B, a network that answers
\* 500 with the source, no address book in the tree, none at all, a locked tree
FaultWorlds ==
    {[files |-> BothBooks, chain |-> ChainB(reply)] : reply \in FailingReplies}
        \cup {[files |-> BothBooks, chain |-> ChainB(ServerErrorReply(<<"B">>, SrcB))],
              [files |-> UpOnly, chain |-> ChainUp],
              [files |-> NoBook, chain |-> ChainUp],
              [files |-> Locked, chain |-> ChainUp]}

MissingRoot == <<<<"z">>>>
FaultRoots == {<<>>, <<DirB>>, MissingRoot}
FaultPaths == {<<DirB, <<"n", CdcExt>>>>, <<DirB, <<"f", CdcExt>>>>}

InitFaults ==
    /\ Transactions = EmptyMap
    /\ Scripts = EmptyMap
    /\ Structs = EmptyMap
    /\ AddressesPath = NoPath
    /\ \E w \in FaultWorlds : files = w.files /\ chain = w.chain
    /\ ret = [op |-> "New"]
    /\ pass = 0

NextFaults ==
    \/ \E path \in FaultPaths : AnalyzeFile(path)
    \/ \E root \in FaultRoots : AnalyzeDirectory(root)
    \/ \E network \in Networks : ResolveNestedTypes(network)
    \/ GetReport
    \/ \E root \in FaultRoots, resolveNested \in BOOLEAN :
          analyzeCmd(root, resolveNested, "mainnet")

SpecFaults == InitFaults /\ [][NextFaults]_vars

----------------------------------------------------------------------------
(* extractImports and the nested-type collector on their own               *)

\* the lines of a source file: each line is the sequence of its fields
MaxLines == 3
SourceLines ==
    {<<"import", "A", "from", "0xA">>, <<"import", "B", "from", "0xB", "x">>,
     <<"import", "A">>, <<"import", "A", "to", "0xA">>, <<"import">>,
     <<>>, <<"body">>}
Contents == UNION {[1..n -> SourceLines] : n \in 1..MaxLines}

\* type expressions: a name with up to MaxWrap optional markers and brackets
MaxWrap == 2
TypeNames == {<<"C", ".", "S">>, <<"C", ".", "S", ".", "T">>, <<"I">>}
RECURSIVE TypesUpTo(_)
TypesUpTo(n) ==
    IF n = 0 THEN {Nominal(id) : id \in TypeNames}
    ELSE LET inner == TypesUpTo(n - 1)
         IN  inner \cup {Optional(t) : t \in inner} \cup {Array(t) : t \in inner}

\* extractImports(content)
ExtractImports(content) ==
    /\ ret' = [op |-> "extractImports", content |-> content,
               imports |-> extractImports(content).imports,
               body |-> extractImports(content).body]
    /\ UNCHANGED <<Transactions, Scripts, Structs, AddressesPath, files, chain, pass>>

\* the collector of ResolveNestedTypes on a catalog whose one script returns t
CollectNestedTypes(t) ==
    /\ ret' = [op |-> "collect", typeStr |-> TypeString(t),
               nestedTypes |->
                   NestedTypes([Transactions |-> EmptyMap,
                                Scripts |-> (<<"q", CdcExt>> :>
                                                [NoResult EXCEPT !.Type = "script",
                                                    !.ReturnType = TypeString(t)]),
                                Structs |-> EmptyMap,
                                AddressesPath |-> NoPath])]
    /\ UNCHANGED <<Transactions, Scripts, Structs, AddressesPath, files, chain, pass>>

NextPure ==
    \/ \E content \in Contents : ExtractImports(content)
    \/ \E t \in TypesUpTo(MaxWrap) : CollectNestedTypes(t)

SpecPure == Init /\ [][NextPure]_vars

----------------------------------------------------------------------------
(* The scanner of remote source on its own, one line at a time             *)

\* the lines a remote source is made of: a structure S with its brace on the
\* same line and on the next line, a structure U, a brace alone, two field
\* declarations, a local constant without type annotation, a closing brace
MaxScanLines == 4
ScanSourceLines ==
    {StructLine(<<"S">>), <<AccessAllTok, <<"struct">>, <<"S">>>>, StructLine(<<"U">>),
     << <<"{">> >>,
     FieldLine(<<"t">>, <<"I", "?", ";">>), FieldLine(<<"k">>, <<"I">>),
     << <<"let">>, <<"y">>, <<"=">>, <<"5">> >>,
     CloseLine}
WantedSets == {{<<"S">>}, {<<"S">>, <<"U">>}}
ScannedContract == <<"A">>

\* analyzeContractCodeSelective before its loop: nothing scanned yet
ScanStart(structNames) ==
    LET st == [Structs |-> EmptyMap, current |-> <<>>, inStruct |-> FALSE,
               braceCount |-> 0]
    IN  /\ ret' = [op |-> "scan", structNames |-> structNames, lines |-> <<>>,
                   before |-> st, after |-> st]
        /\ UNCHANGED <<Transactions, Scripts, Structs, AddressesPath, files, chain, pass>>

\* one iteration of the loop over the lines of the source
ScanNextLine(parts) ==
    /\ ret.op = "scan"
    /\ Len(ret.lines) < MaxScanLines
    /\ ret' = [ret EXCEPT !.lines = Append(@, parts),
                          !.before = ret.after,
                          !.after = ScanLine(ret.after, parts, ScannedContract,
                                             ret.structNames)]
    /\ UNCHANGED <<Transactions, Scripts, Structs, AddressesPath, files, chain, pass>>

NextScan ==
    \/ \E structNames \in WantedSets : ScanStart(structNames)
    \/ \E parts \in ScanSourceLines : ScanNextLine(parts)

SpecScan == Init /\ [][NextScan]_vars

----------------------------------------------------------------------------
(* The tag of a directory path on its own                                   *)

\* directory paths: up to MaxSegments named segments, relative or absolute (an
\* absolute path splits into an empty first segment), and the directory "."
MaxSegments == 3
SegmentNames == {<<"a">>, <<"A", "_", "b">>, <<"b", "-", "C">>, <<"a", ".", "b">>}
DirPaths ==
    LET named == UNION {[1..n -> SegmentNames] : n \in 1..MaxSegments}
    IN  named \cup {<< <<>> >> \o d : d \in named} \cup {<<DotSeg>>}

\* the tag AnalyzeFile gives the files of a directory
TagOfDirectory(dir) ==
    /\ ret' = [op |-> "tag", dir |-> dir, tag |-> DeriveTag(dir)]
    /\ UNCHANGED <<Transactions, Scripts, Structs, AddressesPath, files, chain, pass>>

NextTag == \E dir \in DirPaths : TagOfDirectory(dir)

SpecTag == Init /\ [][NextTag]_vars

----------------------------------------------------------------------------
(* The npm installer (lib/install.js)                                       *)
(*                                                                          *)
(* ret holds the run: the platform and architecture of the process, the    *)
(* position of install(), one entry per promise downloadAndExtract has      *)
(* returned (the first is the one install() awaits), the state of the      *)
(* request of the latest call, whether the binary has been copied, and     *)
(* whether the runtime has reported a rejection nobody handles.            *)

\* redirects the model follows
MaxRedirects == 2

Platforms == {"darwin", "linux", "win32", "freebsd"}
Archs == {"x64", "arm64", "ia32"}
Responses == {"200", "redirect", "other", "error"}

\* getPlatform: the Go name of the platform, "" where the function throws
getPlatform(platform, arch) ==
    IF arch \notin {"x64", "arm64"} THEN ""
    ELSE CASE platform = "darwin" -> "darwin"
           [] platform = "linux" -> "linux"
           [] platform = "win32" -> "windows"
           [] OTHER -> ""

\* the catch block of install(): go install succeeds, or process.exit(1)
Fallback(goOk) == IF goOk THEN "goInstalled" ELSE "exit1"

\* the promise of the latest call of downloadAndExtract settles
Settle(promises, outcome) == [promises EXCEPT ![Len(promises)] = outcome]

\* install() up to its await: an unsupported platform throws into the catch
\* block; otherwise downloadAndExtract creates a promise and sends the request
install(platform, arch, goOk) ==
    /\ ret.op = "New"
    /\ ret' = IF getPlatform(platform, arch) = ""
              THEN [op |-> "install", platform |-> platform, arch |-> arch,
                    pc |-> Fallback(goOk), promises |-> <<>>, request |-> "none",
                    binary |-> FALSE, reported |-> FALSE]
              ELSE [op |-> "install", platform |-> platform, arch |-> arch,
                    pc |-> "awaiting", promises |-> <<"pending">>, request |-> "sent",
                    binary |-> FALSE, reported |-> FALSE]
    /\ UNCHANGED <<Transactions, Scripts, Structs, AddressesPath, files, chain, pass>>

\* the callback of https.get and the error handler of the request: a redirect
\* calls downloadAndExtract again and drops the promise it returns, without
\* settling the promise of this call; another status and a network error
\* reject; 200 pipes the body into the archive file
Response(kind) ==
    /\ ret.op = "install"
    /\ ret.pc = "awaiting"
    /\ ret.request = "sent"
    /\ kind = "redirect" => Len(ret.promises) <= MaxRedirects
    /\ ret' = CASE kind = "redirect" ->
                      [ret EXCEPT !.promises = Append(@, "pending"), !.request = "sent"]
                [] kind = "200" -> [ret EXCEPT !.request = "piping"]
                [] OTHER ->
                      [ret EXCEPT !.promises = Settle(@, "rejected"),
                                  !.request = "closed"]
    /\ UNCHANGED <<Transactions, Scripts, Structs, AddressesPath, files, chain, pass>>

\* the finish handler of the archive file: on windows it throws; otherwise the
\* archive is extracted and the binary copied, or the extraction fails
Finish(extracted) ==
    /\ ret.op = "install"
    /\ ret.pc = "awaiting"
    /\ ret.request = "piping"
    /\ ret' = IF getPlatform(ret.platform, ret.arch) # "windows" /\ extracted
              THEN [ret EXCEPT !.promises = Settle(@, "resolved"), !.request = "closed",
                               !.binary = TRUE]
              ELSE [ret EXCEPT !.promises = Settle(@, "rejected"), !.request = "closed"]
    /\ UNCHANGED <<Transactions, Scripts, Structs, AddressesPath, files, chain, pass>>

\* the error handler of the archive file
FileError ==
    /\ ret.op = "install"
    /\ ret.pc = "awaiting"
    /\ ret.request = "piping"
    /\ ret' = [ret EXCEPT !.promises = Settle(@, "rejected"), !.request = "closed"]
    /\ UNCHANGED <<Transactions, Scripts, Structs, AddressesPath, files, chain, pass>>

\* install() after its await, once the promise it awaits has settled
Resume(goOk) ==
    /\ ret.op = "install"
    /\ ret.pc = "awaiting"
    /\ ret.promises[1] # "pending"
    /\ ret' = [ret EXCEPT !.pc = IF ret.promises[1] = "resolved" THEN "installed"
                                 ELSE Fallback(goOk)]
    /\ UNCHANGED <<Transactions, Scripts, Structs, AddressesPath, files, chain, pass>>

\* a dropped promise was rejected: the runtime reports the rejection nobody
\* handles, and by its version ends the process with code 1 or goes on
UnhandledRejection(crash) ==
    /\ ret.op = "install"
    /\ ret.pc = "awaiting"
    /\ ~ret.reported
    /\ Len(ret.promises) > 1
    /\ ret.promises[Len(ret.promises)] = "rejected"
    /\ ret' = [ret EXCEPT !.reported = TRUE,
                          !.pc = IF crash THEN "crashed" ELSE "awaiting"]
    /\ UNCHANGED <<Transactions, Scripts, Structs, AddressesPath, files, chain, pass>>

\* nothing is left to run while install() still awaits: the process ends with
\* code 0
Drain ==
    /\ ret.op = "install"
    /\ ret.pc = "awaiting"
    /\ ret.request = "closed"
    /\ ret.promises[1] = "pending"
    /\ ret.promises[Len(ret.promises)] = "rejected" => ret.reported
    /\ ret' = [ret EXCEPT !.pc = "exit0"]
    /\ UNCHANGED <<Transactions, Scripts, Structs, AddressesPath, files, chain, pass>>

NextInstall ==
    \/ \E platform \in Platforms, arch \in Archs, goOk \in BOOLEAN :
          install(platform, arch, goOk)
    \/ \E kind \in Responses : Response(kind)
    \/ \E extracted \in BOOLEAN : Finish(extracted)
    \/ FileError
    \/ \E goOk \in BOOLEAN : Resume(goOk)
    \/ \E crash \in BOOLEAN : UnhandledRejection(crash)
    \/ Drain

\* every request is answered and every callback that is ready runs
SpecInstall == Init /\ [][NextInstall]_vars /\ WF_vars(NextInstall)

----------------------------------------------------------------------------
(* Properties                                                               *)

\* the declarations the parser returns for the file at a path (none if it fails)
DeclsAt(path) ==
    LET n == Lookup(Tree(files), path)
    IN  IF n.missing \/ n.isDir \/ n.program.err THEN <<>> ELSE n.program.Declarations

HasTransactionDecl(path) == \E i \in 1..Len(DeclsAt(path)) : DeclsAt(path)[i].decl = "transaction"
HasMainDecl(path) ==
    \E i \in 1..Len(DeclsAt(path)) :
        DeclsAt(path)[i].decl = "function" /\ DeclsAt(path)[i].Identifier = Main

\* the first function named main of the file at a path
MainDeclAt(path) ==
    LET ds == DeclsAt(path)
    IN  ds[CHOOSE i \in 1..Len(ds) :
               /\ ds[i].decl = "function" /\ ds[i].Identifier = Main
               /\ \A j \in 1..(i - 1) : ~(ds[j].decl = "function" /\ ds[j].Identifier = Main)]

\* C1: a file whose top-level declarations contain a transaction declaration is
\* classified "transaction" wherever that declaration stands and also when a
\* function main is declared; the result is stored in Transactions under the
\* file name and the call adds nothing to Scripts.
C1_TransactionPriority ==
    [][(ret'.op = "AnalyzeFile" /\ HasTransactionDecl(ret'.path))
          => /\ ret'.err = ""
             /\ ret'.result.Type = "transaction"
             /\ Base(ret'.path) \in DOMAIN Transactions'
             /\ Transactions'[Base(ret'.path)] = ret'.result
             /\ Scripts' = Scripts]_vars

\* C1 witness: a file that declares main before its transaction was analyzed.
C1_Witness ==
    /\ ret.op = "AnalyzeFile"
    /\ HasTransactionDecl(ret.path) /\ HasMainDecl(ret.path)
    /\ DeclsAt(ret.path)[1].decl = "function"
    /\ ret.result.Type = "transaction"

\* C2: for a file without transaction and with a function main, the result is a
\* script whose parameters are main's parameters (names and type strings, in
\* order), whose return type is main's declared return type, and whose
\* parameter list is an empty list, not nil, when main has no parameters.
C2_ScriptSignature ==
    (ret.op = "AnalyzeFile" /\ ~HasTransactionDecl(ret.path) /\ HasMainDecl(ret.path))
        => LET m == MainDeclAt(ret.path)
               ps == m.ParameterList.Parameters
               got == ret.result.Parameters
           IN  /\ ret.err = ""
               /\ ret.result.Type = "script"
               /\ ~got.nil
               /\ Len(got.elems) = Len(ps)
               /\ \A i \in 1..Len(ps) :
                     /\ got.elems[i].Name = ps[i].Identifier
                     /\ got.elems[i].TypeStr = TypeString(ps[i].TypeAnnotation)
               /\ ret.result.ReturnType =
                     (IF m.ReturnTypeAnnotation = NoType THEN <<>>
                      ELSE TypeString(m.ReturnTypeAnnotation))
               /\ Scripts[Base(ret.path)] = ret.result

\* C2 witness: a script whose main has no parameters got an empty, non-nil list.
C2_Witness ==
    /\ ret.op = "AnalyzeFile"
    /\ ~HasTransactionDecl(ret.path) /\ HasMainDecl(ret.path)
    /\ MainDeclAt(ret.path).ParameterList.Parameters = <<>>
    /\ ret.result.Type = "script"
    /\ ret.result.Parameters = Slice(<<>>)

\* C3: a second ResolveNestedTypes run directly after a first one, on the same
\* network with the same address book and remote sources, leaves the structure
\* map as the first run left it.
C3_SecondRunChangesNothing ==
    [][(ret.op = "ResolveNestedTypes" /\ ret'.op = "ResolveNestedTypes"
            /\ ret'.network = ret.network)
          => Structs' = Structs]_vars

\* C4: scanning the source of contract C for the wanted set W adds only keys
\* C.s with s in W, wherever the other structures of the source are declared.
C4_OnlyWantedAdded ==
    ret.op = "ResolveNestedTypes"
        => \A i \in 1..Len(ret.calls) :
              LET call == ret.calls[i]
              IN  (DOMAIN call.after) \ (DOMAIN call.before)
                      \subseteq {call.contract \o <<".">> \o s : s \in call.wanted}

\* C4 witness: contract A, which declares W before S, U inside S and V after S,
\* was scanned for {S} alone and S was added.
C4_Witness ==
    /\ ret.op = "ResolveNestedTypes"
    /\ \E i \in 1..Len(ret.calls) :
          /\ ret.calls[i].contract = <<"A">>
          /\ ret.calls[i].wanted = {<<"S">>}
          /\ <<"A", ".", "S">> \in (DOMAIN ret.calls[i].after) \ (DOMAIN ret.calls[i].before)

\* the source files of the walk of a root, in the order of the walk
CdcVisit(root) ==
    SelectSeq(WalkNode(Lookup(Tree(files), root), root),
              LAMBDA v : ~v.node.isDir /\ Ext(v.path) = CdcExt)

\* the kind of entry point a parsed file has
EntryKind(decls) ==
    IF \E i \in 1..Len(decls) : decls[i].decl = "transaction" THEN "transaction"
    ELSE IF \E i \in 1..Len(decls) :
                /\ decls[i].decl = "function"
                /\ (decls[i].Identifier = Main \/ decls[i].Access # "AccessNotSpecified")
         THEN "script"
    ELSE "none"

\* indices, in the walk of a root, of the files with a syntax error, of the
\* files that parse and have an entry point, and of the other files
BadIn(root) == {i \in 1..Len(CdcVisit(root)) : CdcVisit(root)[i].node.program.err}
ValidIn(root) ==
    {i \in 1..Len(CdcVisit(root)) :
        /\ ~CdcVisit(root)[i].node.program.err
        /\ EntryKind(CdcVisit(root)[i].node.program.Declarations) # "none"}
OneBadRestValid(root) ==
    /\ Cardinality(BadIn(root)) = 1
    /\ BadIn(root) \cup ValidIn(root) = 1..Len(CdcVisit(root))

NamesOfKind(root, kind) ==
    {Base(CdcVisit(root)[i].path) :
        i \in {j \in ValidIn(root) :
                  EntryKind(CdcVisit(root)[j].node.program.Declarations) = kind}}

\* C5 as stated: after AnalyzeDirectory of a new analyzer over a tree with one
\* file with a syntax error and N valid files, Transactions and Scripts hold
\* exactly N entries together and exactly one warning was emitted.
C5_ExactlyNEntries ==
    [][(Transactions = EmptyMap /\ Scripts = EmptyMap
            /\ ret'.op = "AnalyzeDirectory" /\ OneBadRestValid(ret'.root))
          => /\ Cardinality(DOMAIN Transactions') + Cardinality(DOMAIN Scripts')
                    = Cardinality(ValidIn(ret'.root))
             /\ ret'.warnings = 1]_vars

\* C5 amended: the catalog then holds entries keyed by base file name: every
\* key is the base name of a valid file of that kind, every valid file's base
\* name is a key, there are at most N entries, and exactly N when the base
\* names of the valid files are pairwise distinct; one warning was emitted.
C5_EntriesKeyedByBaseName ==
    [][(Transactions = EmptyMap /\ Scripts = EmptyMap
            /\ ret'.op = "AnalyzeDirectory" /\ OneBadRestValid(ret'.root))
          => LET root == ret'.root
                 n == Cardinality(ValidIn(root))
                 entries == Cardinality(DOMAIN Transactions')
                                + Cardinality(DOMAIN Scripts')
                 distinct == \A i, j \in ValidIn(root) :
                                 Base(CdcVisit(root)[i].path) = Base(CdcVisit(root)[j].path)
                                     => i = j
             IN  /\ DOMAIN Transactions' \subseteq NamesOfKind(root, "transaction")
                 /\ DOMAIN Scripts' \subseteq NamesOfKind(root, "script")
                 /\ \A i \in ValidIn(root) :
                       Base(CdcVisit(root)[i].path)
                           \in (DOMAIN Transactions') \cup (DOMAIN Scripts')
                 /\ entries <= n
                 /\ distinct => entries = n
                 /\ ret'.warnings = 1]_vars

\* C5 witness: the walk of a tree with one bad file and five valid files, two of
\* them transactions of the same base name, left four entries and one warning.
C5_Witness ==
    /\ ret.op = "AnalyzeDirectory"
    /\ OneBadRestValid(ret.root)
    /\ Cardinality(ValidIn(ret.root)) = 5
    /\ DOMAIN Transactions = NamesOfKind(ret.root, "transaction")
    /\ DOMAIN Scripts = NamesOfKind(ret.root, "script")
    /\ Cardinality(DOMAIN Transactions) + Cardinality(DOMAIN Scripts) = 4
    /\ ret.warnings = 1

\* a string with its dots deleted
DeleteDots(str) == SelectSeq(str, LAMBDA c : c # ".")

\* C6: the report's structure map holds, for every stored key K, the key K
\* without its dots with a Name flattened the same way, and GetReport leaves
\* the stored structure map as it is.
C6_FlattenedView ==
    [][(ret'.op = "GetReport")
          => /\ Structs' = Structs
             /\ \A k \in DOMAIN Structs :
                   /\ DeleteDots(k) \in DOMAIN ret'.report.Structs
                   /\ ret'.report.Structs[DeleteDots(k)].Name = DeleteDots(Structs[k].Name)
             /\ \A k \in DOMAIN Structs' : Structs'[k].Name = k]_vars

\* C6 witness: a report was read while the stored map held the dotted key A.S.
C6_Witness ==
    /\ ret.op = "GetReport"
    /\ <<"A", ".", "S">> \in DOMAIN Structs
    /\ Structs[<<"A", ".", "S">>].Name = <<"A", ".", "S">>
    /\ <<"A", "S">> \in DOMAIN ret.report.Structs
    /\ ret.report.Structs[<<"A", "S">>].Name = <<"A", "S">>

\* C7: no script return type and no structure field type of a report holds a dot.
C7_NoDottedTypeInReport ==
    ret.op = "GetReport"
        => /\ \A k \in DOMAIN ret.report.Scripts :
                 ~Contains(ret.report.Scripts[k].ReturnType, ".")
           /\ \A k \in DOMAIN ret.report.Structs :
                 \A i \in 1..Len(ret.report.Structs[k].Fields) :
                    ~Contains(ret.report.Structs[k].Fields[i].TypeStr, ".")

\* C8: after AnalyzeDirectory, the result stored for a source file that lies
\* directly in the scan root has no tag.  (A file is judged by its own stored
\* result: no later file of the walk has its kind and base name.)
C8_RootFilesUntagged ==
    ret.op = "AnalyzeDirectory"
        => \A i \in ValidIn(ret.root) :
              LET v == CdcVisit(ret.root)[i]
                  kind == EntryKind(v.node.program.Declarations)
                  stored == IF kind = "transaction" THEN Transactions ELSE Scripts
                  last == \A j \in ValidIn(ret.root) :
                             (/\ Base(CdcVisit(ret.root)[j].path) = Base(v.path)
                              /\ EntryKind(CdcVisit(ret.root)[j].node.program.Declarations)
                                    = kind)
                                 => j <= i
              IN  (Len(v.path) = Len(ret.root) + 1 /\ last)
                      => stored[Base(v.path)].Tag = <<>>

\* C9: no file name is a key of Transactions and of Scripts, and the map of its
\* kind holds the result of the latest analysis stored under a name.
C9_OneCollectionPerName ==
    /\ (DOMAIN Transactions) \cap (DOMAIN Scripts) = {}
    /\ (ret.op = "AnalyzeFile" /\ ret.err = "")
          => (IF ret.result.Type = "transaction" THEN Transactions ELSE Scripts)
                 [Base(ret.path)] = ret.result

\* C10: a call of analyzeContractCodeSelective leaves every entry the structure
\* map held before the call as it was, also when the source declares it again.
C10_ExistingEntriesKept ==
    ret.op = "ResolveNestedTypes"
        => \A i \in 1..Len(ret.calls) :
              \A k \in DOMAIN ret.calls[i].before :
                 /\ k \in DOMAIN ret.calls[i].after
                 /\ ret.calls[i].after[k] = ret.calls[i].before[k]

\* C10 witness: the source of contract A, which declares S, was scanned for a
\* wanted set that holds S while A.S and a locally captured L were in the map.
C10_Witness ==
    /\ ret.op = "ResolveNestedTypes"
    /\ \E i \in 1..Len(ret.calls) :
          /\ ret.calls[i].contract = <<"A">>
          /\ ret.calls[i].err = ""
          /\ <<"S">> \in ret.calls[i].wanted
          /\ <<"A", ".", "S">> \in DOMAIN ret.calls[i].before
          /\ <<"L">> \in DOMAIN ret.calls[i].before

\* C11: the Optional flag of every parameter of a stored transaction or script is
\* true exactly when the parameter's type expression ends in "?".
C11_OptionalFromType ==
    \A m \in {Transactions, Scripts} :
       \A k \in DOMAIN m :
          \A i \in 1..Len(m[k].Parameters.elems) :
             m[k].Parameters.elems[i].Optional
                 = HasSuffix(m[k].Parameters.elems[i].TypeStr, "?")

\* C12: an AnalyzeFile call that fails for want of an entry point leaves the
\* Transactions, Scripts and Structs maps as they were.
C12_NoEntryPointAddsNothing ==
    [][(ret'.op = "AnalyzeFile" /\ ret'.err = "noentry")
          => /\ Transactions' = Transactions
             /\ Scripts' = Scripts
             /\ Structs' = Structs]_vars

\* the lines of a content with exactly the shape import <Name> from <Address>
WellFormedImports(content) ==
    SelectSeq(content, LAMBDA l : Len(l) = 4 /\ l[1] = "import" /\ l[3] = "from")

\* C13: extractImports returns one Import per line of exactly the shape
\* import <Name> from <Address>, in source order, duplicates kept, name and
\* address from the second and fourth token; every other import line yields none.
C13_ImportsOfExactShape ==
    ret.op = "extractImports"
        => LET wf == WellFormedImports(ret.content)
           IN  ret.imports = [i \in 1..Len(wf) |->
                                 [Contract |-> wf[i][2], Address |-> wf[i][4]]]

\* C14: every line of the input that is not an import line stands at the same
\* line number in the body extractImports returns.
C14_LineNumbersKept ==
    ret.op = "extractImports"
        => \A i \in 1..Len(ret.content) :
              ~(Len(ret.content[i]) >= 2 /\ ret.content[i][1] = "import")
                  => (i <= Len(ret.body) /\ ret.body[i] = ret.content[i])

\* the contract a key of the structure map is qualified with
ContractOf(key) == Split(key, ".")[1]

\* C15: when the fetch of a contract fails in a pass of ResolveNestedTypes, the
\* pass still fetches every contract of the work list once, returns no error,
\* and adds no structure of the failed contract to the structure map.
C15_FailureIsLocal ==
    [][(ret'.op = "ResolveNestedTypes"
            /\ \E i \in 1..Len(ret'.calls) : ret'.calls[i].err # "")
          => /\ ret'.err = ""
             /\ {ret'.calls[i].contract : i \in 1..Len(ret'.calls)}
                    = DOMAIN NestedTypes(Analyzer)
             /\ Len(ret'.calls) = Cardinality(DOMAIN NestedTypes(Analyzer))
             /\ \A i \in 1..Len(ret'.calls) :
                   ret'.calls[i].err # ""
                       => /\ ret'.calls[i].after = ret'.calls[i].before
                          /\ \A k \in (DOMAIN Structs') \ (DOMAIN Structs) :
                                ContractOf(k) # ret'.calls[i].contract]_vars

\* C15 witness: in one pass the request for one contract failed and a contract
\* fetched after it had its structure added.
C15_Witness ==
    /\ ret.op = "ResolveNestedTypes"
    /\ ret.err = ""
    /\ \E i, j \in 1..Len(ret.calls) :
          /\ i < j
          /\ ret.calls[i].err # "" /\ ret.calls[i].requested
          /\ ret.calls[j].err = ""
          /\ (DOMAIN ret.calls[j].after) \ (DOMAIN ret.calls[j].before) # {}

\* C16: a fetch whose reply has a status other than 200 fails, whatever the body
\* holds, and adds no structure to the structure map.
C16_Non200Fails ==
    ret.op \in {"ResolveNestedTypes", "analyze"}
        => \A i \in 1..Len(ret.calls) :
              (ret.calls[i].requested /\ ret.calls[i].status # 200)
                  => /\ ret.calls[i].err # ""
                     /\ ret.calls[i].after = ret.calls[i].before

\* the contract names an address book lists for a network, without prefix
ListedContracts(book, network) ==
    IF book.nil \/ network \notin DOMAIN book.networks THEN {}
    ELSE {TrimPrefix(n, "0x") : n \in DOMAIN book.networks[network]}

\* C17: when an addresses.json is found by the upward search, its book is the one
\* in the report and the one contracts are looked up in, also when the walked
\* tree holds an addresses.json; the book of the tree is used only otherwise.
C17_UpwardBookFirst ==
    /\ ret.op = "GetReport"
          => ret.report.Addresses
                 = (IF ~files.up.nil THEN files.up
                    ELSE IF AddressesPath # NoPath THEN files.tree
                    ELSE NoAddresses)
    /\ (ret.op = "ResolveNestedTypes" /\ ~files.up.nil)
          => \A i \in 1..Len(ret.calls) :
                ret.calls[i].requested
                    => ret.calls[i].contract \in ListedContracts(files.up, ret.network)

\* the walk of a root meets no error
WalkSucceeds(root) ==
    LET visit == WalkNode(Lookup(Tree(files), root), root)
    IN  \A i \in 1..Len(visit) : ~visit[i].err

\* C18: when no address book exists and the analyze command is asked to resolve
\* nested types, it sends no request, leaves the structure map as the walk left
\* it, reports each contract only as a warning, and writes the catalog.
C18_NoBookNoRequest ==
    (ret.op = "analyze" /\ ret.resolveNested /\ files.tree.nil /\ files.up.nil
        /\ WalkSucceeds(ret.input))
        => /\ \A i \in 1..Len(ret.calls) :
                 /\ ~ret.calls[i].requested
                 /\ ret.calls[i].err = "no addresses available"
                 /\ ret.calls[i].after = ret.calls[i].before
           /\ Structs = ret.scanned
           /\ ret.err = ""
           /\ ret.written
           /\ ret.report.Transactions = Transactions
           /\ ret.report.Scripts = Scripts
           /\ DOMAIN ret.report.Structs = {flattenStructName(k) : k \in DOMAIN ret.scanned}
           /\ ret.report.Addresses.nil

\* C18 witness: without any address book the command walked a tree whose catalog
\* names two remote contracts, was asked to resolve them, and wrote the catalog.
C18_Witness ==
    /\ ret.op = "analyze" /\ ret.resolveNested
    /\ files.tree.nil /\ files.up.nil
    /\ Len(ret.calls) = 2
    /\ \A i \in 1..Len(ret.calls) : ~ret.calls[i].requested
    /\ ret.written
    /\ Structs = ret.scanned /\ Structs # EmptyMap

\* the root of a walk can be read
RootReadable(root) ==
    LET n == Lookup(Tree(files), root)
    IN  ~n.missing /\ ~n.unreadable

\* C19: AnalyzeDirectory returns an error only when its root cannot be read;
\* whatever fails below a readable root, every valid source file of the tree is
\* analyzed: the entry of its kind and base name is the result of the last such
\* file of the walk.
C19_OnlyRootErrorAborts ==
    ret.op = "AnalyzeDirectory"
        => /\ ret.err # "" => ~RootReadable(ret.root)
           /\ RootReadable(ret.root)
                 => \A i \in ValidIn(ret.root) :
                       LET v == CdcVisit(ret.root)[i]
                           kind == EntryKind(v.node.program.Declarations)
                           stored == IF kind = "transaction" THEN Transactions
                                     ELSE Scripts
                           last == \A j \in ValidIn(ret.root) :
                                      (/\ Base(CdcVisit(ret.root)[j].path) = Base(v.path)
                                       /\ EntryKind(CdcVisit(ret.root)[j].node.program
                                                        .Declarations) = kind)
                                          => j <= i
                       IN  last => /\ Base(v.path) \in DOMAIN stored
                                   /\ stored[Base(v.path)].Tag = DeriveTag(DirParts(v.path))

\* the five spellings of a reference to structure S of contract C
SpellingsOfCS ==
    {<<"C", ".", "S">>, <<"C", ".", "S", "?">>, <<"[", "C", ".", "S", "]">>,
     <<"[", "C", ".", "S", "]", "?">>, <<"[", "C", ".", "S", "?", "]">>}

\* C20: for each of C.S, C.S?, [C.S], [C.S]? and [C.S?] the collector records
\* structure S under contract C, and for a type with two or more dots nothing.
C20_BracketsAndMarkerStripped ==
    ret.op = "collect"
        => /\ ret.typeStr \in SpellingsOfCS
                 => ret.nestedTypes = (<<"C">> :> {<<"S">>})
           /\ Count(ret.typeStr, ".") >= 2 => ret.nestedTypes = EmptyMap

\* contract D is in the address book in use for a network, and the source the
\* chain holds for it declares a structure T
RemoteDeclares(network, D, T) ==
    LET book == LoadAddresses(AddressesPath, files)
        names == IF book.nil \/ network \notin DOMAIN book.networks THEN {}
                 ELSE {n \in DOMAIN book.networks[network] : TrimPrefix(n, "0x") = D}
    IN  \E n \in names :
           LET reply == HttpGet(chain, network, TrimPrefix(book.networks[network][n], "0x"))
           IN  /\ ~reply.err /\ reply.json /\ reply.hasContracts
               /\ D \in DOMAIN reply.contracts
               /\ reply.contracts[D].base64
               /\ \E l \in 1..Len(reply.contracts[D].code) :
                     /\ IsStructStart(reply.contracts[D].code[l])
                     /\ Len(reply.contracts[D].code[l]) >= 3
                     /\ reply.contracts[D].code[l][3] = T

\* C21: when a call of ResolveNestedTypes has added a structure with a field of
\* dotted type D.T, D being in the address book and T declared in D's source,
\* D.T is in the structure map when that call returns.
C21_ChainedWithinOnePass ==
    (ret.op = "ResolveNestedTypes" /\ Len(ret.calls) > 0)
        => \A k \in (DOMAIN Structs) \ (DOMAIN ret.calls[1].before) :
              \A i \in 1..Len(Structs[k].Fields) :
                 LET parts == Split(Structs[k].Fields[i].TypeStr, ".")
                 IN  (Len(parts) = 2 /\ RemoteDeclares(ret.network, parts[1], parts[2]))
                         => (parts[1] \o <<".">> \o parts[2]) \in DOMAIN Structs

\* a type string without its brackets and optional markers
BareType(typeStr) == SelectSeq(typeStr, LAMBDA c : c \notin {"[", "]", "?"})

\* the structure names the catalog references from a contract: the second part
\* of every two-part dotted type among the return types and the field types
ReferencedNames(structs, contract) ==
    LET types == {Scripts[k].ReturnType : k \in DOMAIN Scripts}
                    \cup {Transactions[k].ReturnType : k \in DOMAIN Transactions}
                    \cup UNION {{structs[k].Fields[i].TypeStr :
                                    i \in 1..Len(structs[k].Fields)} : k \in DOMAIN structs}
        two == {Split(BareType(t), ".") : t \in {x \in types : Count(x, ".") = 1}}
    IN  {p[2] : p \in {q \in two : q[1] = contract}}

\* C22: in one call of ResolveNestedTypes no contract is fetched twice, failed
\* or not, no contract gets more than one request, and the fetch of a contract
\* carries the set of all structure names the catalog references from it.
C22_OneFetchPerContract ==
    ret.op = "ResolveNestedTypes"
        => /\ \A i, j \in 1..Len(ret.calls) :
                 ret.calls[i].contract = ret.calls[j].contract => i = j
           /\ \A i \in 1..Len(ret.calls) :
                 ret.calls[i].wanted
                     = ReferencedNames(ret.calls[1].before, ret.calls[i].contract)

\* C23: the structure map at the end of a resolution pass is the same for every
\* order in which the contracts of the work list are fetched: each order of the
\* work list gives the keys and field lists the pass has stored.
C23_OrderIndependent ==
    [][ret'.op = "ResolveNestedTypes"
          => \A order \in Orders(DOMAIN NestedTypes(Analyzer)) :
                ResolveNestedTypesOp(Analyzer, ret'.network, order, files, chain).Structs
                    = Structs']_vars

\* a pass that fetched two contracts, each of which added structures
C23_Witness ==
    /\ ret.op = "ResolveNestedTypes"
    /\ Len(ret.calls) = 2
    /\ \A i \in 1..2 : ret.calls[i].after # ret.calls[i].before

\* an address without its leading 0x
StripHex(address) ==
    IF address # <<>> /\ Head(address) = "0x" THEN Tail(address) ELSE address

\* C24: a fetch of contract N looks up "0x"+N in the address book of the network
\* and, only when that key is absent, N itself; when the book holds neither key
\* the fetch fails with a contract-not-found error and sends no request; the
\* address of the request is the one listed, without its leading 0x.
C24_AddressLookup ==
    ret.op = "ResolveNestedTypes"
        => \A i \in 1..Len(ret.calls) :
              LET call == ret.calls[i]
                  N == call.contract
                  book == LoadAddresses(AddressesPath, files)
              IN  (~book.nil /\ ret.network \in DOMAIN book.networks)
                      => LET listed == book.networks[ret.network]
                         IN  IF (<<"0x">> \o N) \in DOMAIN listed
                             THEN /\ call.requested
                                  /\ call.address = StripHex(listed[<<"0x">> \o N])
                             ELSE IF N \in DOMAIN listed
                             THEN /\ call.requested
                                  /\ call.address = StripHex(listed[N])
                             ELSE /\ ~call.requested
                                  /\ call.err = "contract not found in network"

\* a fetch of a contract the book lists under both keys, with different addresses,
\* the one under "0x"+N beginning with 0x
C24_Witness ==
    /\ ret.op = "ResolveNestedTypes"
    /\ \E i \in 1..Len(ret.calls) :
          LET N == ret.calls[i].contract
              book == LoadAddresses(AddressesPath, files)
          IN  /\ ~book.nil /\ ret.network \in DOMAIN book.networks
              /\ {<<"0x">> \o N, N} \subseteq DOMAIN book.networks[ret.network]
              /\ book.networks[ret.network][<<"0x">> \o N] # book.networks[ret.network][N]
              /\ Head(book.networks[ret.network][<<"0x">> \o N]) = "0x"
              /\ ret.calls[i].requested

\* the scanner is inside a structure when it handles the fields of a line: it was
\* inside before the line, or the line opens a wanted structure
InsideAt(before, parts, structNames) ==
    \/ before.inStruct /\ before.current # <<>>
    \/ OpensStruct(before.Structs, parts, ScannedContract, structNames)

\* the structure the scanner is in when it handles the fields of a line
CurrentAt(before, parts, structNames) ==
    IF OpensStruct(before.Structs, parts, ScannedContract, structNames)
    THEN ScannedContract \o <<".">> \o parts[3]
    ELSE before.current

\* the positions of a token let that two more tokens follow
LetPositions(parts) == {i \in 1..Len(parts) - 2 : parts[i] = <<"let">>}

\* a token without the given last symbol
WithoutLast(token, c) ==
    IF token # <<>> /\ token[Len(token)] = c THEN SubSeq(token, 1, Len(token) - 1)
    ELSE token

\* the field lists of a structure before a line, empty for a structure just opened
FieldsBefore(before, key) ==
    IF key \in DOMAIN before.Structs THEN before.Structs[key].Fields ELSE <<>>

\* C25 as stated: inside a wanted structure, every line with a token let and two
\* more tokens after it appends exactly one field.
C25_EveryLetLineAppends ==
    (ret.op = "scan" /\ ret.lines # <<>>)
        => LET parts == ret.lines[Len(ret.lines)]
               key == CurrentAt(ret.before, parts, ret.structNames)
           IN  (InsideAt(ret.before, parts, ret.structNames) /\ LetPositions(parts) # {})
                  => Len(ret.after.Structs[key].Fields)
                         = Len(FieldsBefore(ret.before, key)) + 1

\* C25: inside a wanted structure, every line that contains a colon and has a
\* token let with two more tokens after it appends exactly one field, at the end
\* of the field list: its name is the token after the first such let without a
\* trailing colon, its type the next token without a trailing semicolon, its
\* optional flag set exactly when that type contains ?; no other line changes
\* the field list.
C25_LetLineWithColonAppends ==
    (ret.op = "scan" /\ ret.lines # <<>>)
        => LET parts == ret.lines[Len(ret.lines)]
               key == CurrentAt(ret.before, parts, ret.structNames)
               old == FieldsBefore(ret.before, key)
               new == ret.after.Structs[key].Fields
               i == CHOOSE p \in LetPositions(parts) : \A q \in LetPositions(parts) : p <= q
               type == WithoutLast(parts[i + 2], ";")
           IN  InsideAt(ret.before, parts, ret.structNames)
                  => IF LetPositions(parts) # {} /\ \E t \in Range(parts) : ":" \in Range(t)
                     THEN /\ Len(new) = Len(old) + 1
                          /\ SubSeq(new, 1, Len(old)) = old
                          /\ new[Len(new)].Name = WithoutLast(parts[i + 1], ":")
                          /\ new[Len(new)].TypeStr = type
                          /\ new[Len(new)].Optional = ("?" \in Range(type))
                     ELSE new = old

\* a second field, optional and ending in a semicolon, appended inside a structure
C25_Witness ==
    /\ ret.op = "scan" /\ ret.lines # <<>>
    /\ ret.before.inStruct
    /\ ret.before.Structs[ret.before.current].Fields # <<>>
    /\ ret.lines[Len(ret.lines)] = FieldLine(<<"t">>, <<"I", "?", ";">>)
    /\ Len(ret.after.Structs[ret.before.current].Fields)
          = Len(ret.before.Structs[ret.before.current].Fields) + 1

\* opening braces less closing braces on the lines i..j of a source
RECURSIVE NetBraces(_, _, _)
NetBraces(lines, i, j) ==
    IF i > j THEN 0
    ELSE LineCount(lines[i], "{") - LineCount(lines[i], "}") + NetBraces(lines, i + 1, j)

\* the line that declares structure T first, 0 when none does
DeclarationLine(lines, T) ==
    LET hits == {i \in 1..Len(lines) : IsStructStart(lines[i]) /\ Len(lines[i]) >= 3
                                          /\ lines[i][3] = T}
    IN  IF hits = {} THEN 0 ELSE CHOOSE i \in hits : \A j \in hits : i <= j

\* the line with the brace that matches the opening brace of the structure
\* declared on line i, 0 when the source ends before it: the first line on which
\* the braces counted from line i balance, the opening brace counted first
MatchingClose(lines, i) ==
    LET opens == {k \in i..Len(lines) : LineCount(lines[k], "{") > 0}
        open == CHOOSE k \in opens : \A l \in opens : k <= l
        hits == {j \in open..Len(lines) : NetBraces(lines, i, j) <= 0}
        close == CHOOSE j \in hits : \A k \in hits : j <= k
    IN  IF opens = {} THEN 0
        ELSE IF \E k \in i..(open - 1) : LineCount(lines[k], "}") > 0 THEN 0
        ELSE IF hits = {} THEN 0
        ELSE close

\* the single-line field declarations on the lines i..j, in source order
RECURSIVE DeclaredFields(_, _, _)
DeclaredFields(lines, i, j) ==
    IF i > j THEN <<>>
    ELSE LET parts == lines[i]
             p == CHOOSE q \in LetPositions(parts) : \A r \in LetPositions(parts) : q <= r
             type == WithoutLast(parts[p + 2], ";")
         IN  (IF LetPositions(parts) # {} /\ \E t \in Range(parts) : ":" \in Range(t)
              THEN <<[Name |-> WithoutLast(parts[p + 1], ":"), TypeStr |-> type,
                      Optional |-> ("?" \in Range(type)), Access |-> ""]>>
              ELSE <<>>)
                 \o DeclaredFields(lines, i + 1, j)

\* C26: once the scan has passed the closing brace that matches the opening brace
\* of a wanted structure, the fields stored for the structure are the single-line
\* field declarations between the two braces, in source order.
C26_FieldsBetweenMatchingBraces ==
    ret.op = "scan"
        => \A T \in ret.structNames :
              LET i == DeclarationLine(ret.lines, T)
                  j == IF i = 0 THEN 0 ELSE MatchingClose(ret.lines, i)
                  key == ScannedContract \o <<".">> \o T
              IN  j # 0 => /\ key \in DOMAIN ret.after.Structs
                           /\ ret.after.Structs[key].Fields = DeclaredFields(ret.lines, i, j)

\* C27: every key of the stored structure map is a bare name without a dot, of an
\* entry captured from a local file, or a name Contract.Struct with exactly one
\* dot, of an entry resolved remotely; the Name of an entry is its key; and the
\* analysis of a file or directory leaves every remotely resolved entry as it is.
C27_KeyShapes ==
    /\ [](\A k \in DOMAIN Structs :
             /\ Structs[k].Name = k
             /\ Count(k, ".") <= 1
             /\ (Count(k, ".") = 0) <=> (Structs[k].FileName # <<>>))
    /\ [][ret'.op \in {"AnalyzeFile", "AnalyzeDirectory"}
             => \A k \in DOMAIN Structs :
                   Count(k, ".") = 1 => (k \in DOMAIN Structs' /\ Structs'[k] = Structs[k])]_vars

\* a local structure captured after a remote one was resolved
C27_Witness ==
    /\ ret.op = "AnalyzeFile"
    /\ ret.err = ""
    /\ <<"L">> \in DOMAIN Structs
    /\ ret.path = <<DirA, DirAb, <<"t", CdcExt>>>>
    /\ <<"A", ".", "U">> \in DOMAIN Structs

\* a word with its first character in upper case
Capitalize(word) == IF word = <<>> THEN word ELSE <<ToUpperSym(Head(word))>> \o Tail(word)

\* the words of a path: the segments other than "" and ".", split on _ and -,
\* each word in lower case
LowerWords(dir) ==
    LET segments == SelectSeq(dir, LAMBDA part : part # <<>> /\ part # DotSeg)
    IN  Concat([i \in 1..Len(segments) |->
                   [j \in 1..Len(FieldsFunc(segments[i])) |->
                       ToLower(FieldsFunc(segments[i])[j])]])

\* the words joined, each but the first capitalized, then the first character of
\* the whole capitalized
CamelTag(dir) ==
    LET words == LowerWords(dir)
    IN  Capitalize(Concat([k \in 1..Len(words) |->
                              IF k = 1 THEN words[k] ELSE Capitalize(words[k])]))

\* C28: the tag of a directory path is its words (segments other than "" and ".",
\* split on _ and -) in lower case, each word but the first with its first letter
\* capitalized, joined without separator, and then the first character of the
\* whole capitalized and no other.
C28_TagIsCamelCase ==
    ret.op = "tag" => ret.tag = CamelTag(ret.dir)

\* C29: every run of the installer reaches a final outcome: the promise that
\* downloadAndExtract returned to install() is eventually resolved or rejected,
\* and install() ends with the binary installed, with the fallback to go install
\* done, or with exit code 1.
C29_InstallerSettles ==
    [](ret.op = "install"
          => <>(/\ ret.op = "install"
                /\ ret.pc \in {"installed", "goInstalled", "exit1"}
                /\ ret.promises # <<>> => ret.promises[1] # "pending"))

\* C30: the flattened structure map of a report has one entry for every entry of
\* the stored map: no two stored keys flatten to the same key.
C30_NoFlattenCollision ==
    ret.op = "GetReport"
        => /\ Cardinality(DOMAIN ret.report.Structs) = Cardinality(DOMAIN Structs)
           /\ \A j, k \in DOMAIN Structs :
                 flattenStructName(j) = flattenStructName(k) => j = k

====
